---- MODULE Spec2Model ----
(***************************************************************************)
(* A model of fixedint (src/src/fixedint/fixedint.py): the FixedInt class  *)
(* factory, the classes it interns in FixedIntType._classes, and the       *)
(* arithmetic and comparison methods of the FixedIntInstance values.       *)
(*                                                                         *)
(* A Python object is a record [cls, real]: cls is its class and real the  *)
(* integer that int.real reads.  For a FixedIntInstance real is the stored *)
(* bit pattern; for a plain int it is the integer itself.                  *)
(***************************************************************************)
EXTENDS Integers, FiniteSets, Sequences, TLC

\* Bit widths of the values are 1..MaxSize.
MaxSize == 2
\* Plain integers handed to constructors and operators are -MaxInt..MaxInt.
MaxInt == 5

\* The integer sizes FixedInt is called with are -1..MaxRegSize.
MaxRegSize == 2
\* FixedInt stops defining classes once MaxClasses exist: one more than the
\* valid keys, so only classes defined twice for a key can reach it.
MaxClasses == 2 * MaxRegSize + 1

Sizes == 1..MaxSize
Ints == (-MaxInt)..MaxInt

(***************************************************************************)
(* Python's int operators, as the code uses them.                          *)
(***************************************************************************)

\* a << n
Shl(a, n) == a * (2 ^ n)

\* a & b on unbounded two's-complement integers
RECURSIVE BitAnd(_, _)
BitAnd(a, b) ==
    IF a = 0 \/ b = 0 THEN 0
    ELSE IF a = -1 THEN b
    ELSE IF b = -1 THEN a
    ELSE (a % 2) * (b % 2) + 2 * BitAnd(a \div 2, b \div 2)

\* ~a
Invert(a) == (-a) - 1

\* abs(a)
PyAbs(a) == IF a < 0 THEN -a ELSE a

\* a // b for b # 0: rounds toward negative infinity
PyFloorDiv(a, b) == IF b > 0 THEN a \div b ELSE (-a) \div (-b)

\* a % b for b # 0: has the sign of b
PyMod(a, b) == a - b * PyFloorDiv(a, b)

(***************************************************************************)
(* Classes and objects.                                                    *)
(***************************************************************************)

calculate_max_value(size, signed) ==
    LET umax == Shl(1, size) - 1 IN
    IF signed
    THEN LET msb_mask == Shl(1, size - 1)
             tmax == msb_mask - 1
         IN tmax
    ELSE umax

calculate_min_value(size, signed) ==
    IF signed THEN -Shl(1, size - 1) ELSE 0

\* The class FixedInt(size, signed) returns.
FixedIntInstance(size, signed) ==
    [name |-> "FixedIntInstance",
     SIZE |-> size,
     SIGNED |-> signed,
     MAX_VALUE |-> calculate_max_value(size, signed),
     MIN_VALUE |-> calculate_min_value(size, signed)]

\* The builtin classes that appear as operands, results and exceptions.
Builtin(name) == [name |-> name]

PyInt(n) == [cls |-> Builtin("int"), real |-> n]

PyBool(b) == [cls |-> Builtin("bool"), real |-> IF b THEN 1 ELSE 0]

Raised(name) == [cls |-> Builtin(name), real |-> 0]

\* A float argument, known here by its integer part.
PyFloat(n) == [cls |-> Builtin("float"), real |-> n]

IsFixed(v) == v.cls.name = "FixedIntInstance"

IsInt(v) == v.cls.name = "int"

IsRaised(v) == v.cls.name = "ZeroDivisionError"

\* __new__ without the mask: the value is stored as given.
new_unmasked(cls, value) == [cls |-> cls, real |-> value.real]

\* FixedIntInstance.__new__(cls, value)
__new__(cls, value) ==
    LET lower_size_ones == Shl(1, cls.SIZE) - 1
        lower_bits == BitAnd(value.real, lower_size_ones)
    IN [cls |-> cls, real |-> lower_bits]

\* cls(value): a FixedIntInstance class truncates, int keeps the integer.
Call(cls, value) ==
    IF cls.name = "FixedIntInstance" THEN __new__(cls, value) ELSE PyInt(value.real)

\* as_decimal without the sign branch: the bit pattern is returned as it is.
as_decimal_unsigned(self) == self.real

as_decimal(self) ==
    LET size == self.cls.SIZE
        signed == self.cls.SIGNED
    IN IF ~signed THEN self.real
       ELSE LET msb_mask == Shl(1, size - 1)
                msb == BitAnd(self.real, msb_mask)
            IN IF msb # 0
               THEN LET all_ones == Shl(1, size) - 1
                        magnitude == BitAnd(-self.real, all_ones)
                    IN -magnitude
               ELSE self.real

\* The lambdas handed to operation_wrapper, applied to the operands' .real:
\* x is self.real, y is other.real.  A zero divisor raises.
binary_operation(f, x, y) ==
    CASE f = "x + y" -> PyInt(x + y)
      [] f = "y + x" -> PyInt(y + x)
      [] f = "x - y" -> PyInt(x - y)
      [] f = "y - x" -> PyInt(y - x)
      [] f = "x * y" -> PyInt(x * y)
      [] f = "y * x" -> PyInt(y * x)
      [] f = "x // y" -> IF y = 0 THEN Raised("ZeroDivisionError") ELSE PyInt(PyFloorDiv(x, y))
      [] f = "y // x" -> IF x = 0 THEN Raised("ZeroDivisionError") ELSE PyInt(PyFloorDiv(y, x))
      [] f = "x % y" -> IF y = 0 THEN Raised("ZeroDivisionError") ELSE PyInt(PyMod(x, y))
      [] f = "y % x" -> IF x = 0 THEN Raised("ZeroDivisionError") ELSE PyInt(PyMod(y, x))

\* cls(binary_operation(left.real, right.real)); every operand of the model
\* has .real, so the AttributeError branch is not taken.
operation_wrapper(left, right, f, cls) ==
    LET r == binary_operation(f, left.real, right.real)
    IN IF IsRaised(r) THEN r ELSE Call(cls, r)

__add__(self, other) == operation_wrapper(self, other, "x + y", self.cls)

__radd__(self, other) == operation_wrapper(self, other, "y + x", other.cls)

__sub__(self, other) == operation_wrapper(self, other, "x - y", self.cls)

__rsub__(self, other) == operation_wrapper(self, other, "y - x", other.cls)

__mul__(self, other) == operation_wrapper(self, other, "x * y", self.cls)

__rmul__(self, other) == operation_wrapper(self, other, "y * x", other.cls)

__floordiv__(self, other) == operation_wrapper(self, other, "x // y", self.cls)

__rfloordiv__(self, other) == operation_wrapper(self, other, "y // x", other.cls)

__mod__(self, other) == operation_wrapper(self, other, "x % y", self.cls)

__rmod__(self, other) == operation_wrapper(self, other, "y % x", other.cls)

\* Negation without the + 1: the ones' complement.
neg_ones_complement(self) == Call(self.cls, PyInt(Invert(self.real)))

__neg__(self) ==
    LET twos_complement == Invert(self.real) + 1
    IN Call(self.cls, PyInt(twos_complement))

__abs__(self) == Call(self.cls, PyInt(PyAbs(self.real)))

(***************************************************************************)
(* Comparisons.  Each method evaluates `self.as_decimal() <op> other`, a   *)
(* comparison with a plain int on the left.  Python gives the right        *)
(* operand's reflected method priority when its class is a proper subclass *)
(* of the left operand's class, so a FixedIntInstance on the right of a    *)
(* plain int is asked first.                                               *)
(***************************************************************************)

\* int's own comparison of two plain integers
IntCompare(op, a, b) ==
    CASE op = "==" -> a = b
      [] op = "<" -> a < b
      [] op = ">" -> a > b
      [] op = "<=" -> a <= b
      [] op = ">=" -> a >= b

\* The reflected operator: a < b asks b whether b > a.
Swapped(op) ==
    CASE op = "==" -> "=="
      [] op = "<" -> ">"
      [] op = ">" -> "<"
      [] op = "<=" -> ">="
      [] op = ">=" -> "<="

RECURSIVE RichCompare(_, _, _)
RECURSIVE __eq__(_, _)
RECURSIVE __lt__(_, _)
RECURSIVE __gt__(_, _)
RECURSIVE __le__(_, _)
RECURSIVE __ge__(_, _)

\* __eq__ on the stored bit pattern instead of as_decimal().
eq_on_raw(self, other) == RichCompare("==", PyInt(self.real), other)

__eq__(self, other) == RichCompare("==", PyInt(as_decimal(self)), other)

__lt__(self, other) == RichCompare("<", PyInt(as_decimal(self)), other)

__gt__(self, other) == RichCompare(">", PyInt(as_decimal(self)), other)

__le__(self, other) == RichCompare("<=", PyInt(as_decimal(self)), other)

__ge__(self, other) == RichCompare(">=", PyInt(as_decimal(self)), other)

CompareMethod(op, self, other) ==
    CASE op = "==" -> __eq__(self, other)
      [] op = "<" -> __lt__(self, other)
      [] op = ">" -> __gt__(self, other)
      [] op = "<=" -> __le__(self, other)
      [] op = ">=" -> __ge__(self, other)

\* The expression `a <op> b`.
RichCompare(op, a, b) ==
    IF IsFixed(b) /\ ~IsFixed(a) THEN CompareMethod(Swapped(op), b, a)
    ELSE IF IsFixed(a) THEN CompareMethod(op, a, b)
    ELSE IntCompare(op, a.real, b.real)

Classes == {FixedIntInstance(size, signed) : size \in Sizes, signed \in BOOLEAN}

PlainInts == {PyInt(n) : n \in Ints}

\* Every FixedIntInstance the constructors produce from the plain integers.
FixedValues == {Call(cls, v) : cls \in Classes, v \in PlainInts}

(***************************************************************************)
(* The registry FixedIntType._classes and the steps of FixedInt.  A class  *)
(* object is known by its place in `heap`, the classes defined so far in   *)
(* the order of their definition: two classes are the same object iff      *)
(* that place is the same.                                                 *)
(***************************************************************************)

\* What dict.get returns for a missing key; no class has this place.
None == 0

\* A lookup that never finds the class.
get_class_miss(classes, size, signed) == None

\* FixedIntType.get_class(size, signed)
get_class(classes, size, signed) ==
    IF <<size, signed>> \in DOMAIN classes THEN classes[<<size, signed>>] ELSE None

\* FixedIntType.add_class(new_cls), new_cls the class at place h of objects
add_class(classes, objects, h) ==
    LET key == <<objects[h].SIZE, objects[h].SIGNED>>
    IN [k \in DOMAIN classes \cup {key} |-> IF k = key THEN h ELSE classes[k]]

\* isinstance(size, int) and size > 0
IsPositiveInt(size) == size.cls.name = "int" /\ size.real > 0

Threads == {"t1", "t2"}

\* The arguments FixedInt is called with: integers, valid or not, and a float.
SizeArgs == {PyInt(n) : n \in (-1)..MaxRegSize} \cup {PyFloat(n) : n \in 1..MaxRegSize}

VARIABLES
    x,          \* the FixedIntInstance the arithmetic acts on
    last,       \* the last operation on values: method, operands, result
    _classes,   \* FixedIntType._classes: (size, signed) -> class
    heap,       \* the FixedIntInstance classes defined so far
    frame,      \* per thread: where its call of FixedInt stands, and its locals
    returned    \* every <<key, class>> a call of FixedInt has returned

vars == <<x, last, _classes, heap, frame, returned>>

values == <<x, last>>

registry == <<_classes, heap, frame, returned>>

\* What an operation leaves in `last`: the method, its operands in the order
\* of the expression, and what it returned or raised.
Ran(name, args, result) == [op |-> name, args |-> args, result |-> result]

\* x = x <op> other assigns the result; a raised exception leaves x as it was.
Assigned(old, result) == IF IsRaised(result) THEN old ELSE result

\* No call of FixedInt has been made.
Idle == [pc |-> "idle", size |-> PyInt(0), signed |-> FALSE, cls |-> None, outcome |-> "none"]

\* x = FixedInt(1, False)(0), before any class is interned by a modelled call.
Init ==
    /\ x = Call(FixedIntInstance(1, FALSE), PyInt(0))
    /\ last = Ran("new", <<PyInt(0)>>, Call(FixedIntInstance(1, FALSE), PyInt(0)))
    /\ _classes = <<>>
    /\ heap = <<>>
    /\ frame = [t \in Threads |-> Idle]
    /\ returned = {}

\* x = cls(value), value a plain integer or a FixedIntInstance
New ==
    \E cls \in Classes, value \in PlainInts \cup FixedValues :
        /\ x' = Call(cls, value)
        /\ last' = Ran("new", <<value>>, Call(cls, value))
    /\ UNCHANGED registry
        /\ UNCHANGED registry

\* x = x + other
Add ==
    \E other \in PlainInts \cup FixedValues :
        /\ x' = Assigned(x, __add__(x, other))
        /\ last' = Ran("__add__", <<x, other>>, __add__(x, other))
    /\ UNCHANGED registry
        /\ UNCHANGED registry

\* other + x with a plain int on the left: x's reflected method answers
RAdd ==
    \E other \in PlainInts :
        /\ x' = x
        /\ last' = Ran("__radd__", <<other, x>>, __radd__(x, other))
    /\ UNCHANGED registry
        /\ UNCHANGED registry

Sub ==
    \E other \in PlainInts \cup FixedValues :
        /\ x' = Assigned(x, __sub__(x, other))
        /\ last' = Ran("__sub__", <<x, other>>, __sub__(x, other))
    /\ UNCHANGED registry
        /\ UNCHANGED registry

RSub ==
    \E other \in PlainInts :
        /\ x' = x
        /\ last' = Ran("__rsub__", <<other, x>>, __rsub__(x, other))
    /\ UNCHANGED registry
        /\ UNCHANGED registry

Mul ==
    \E other \in PlainInts \cup FixedValues :
        /\ x' = Assigned(x, __mul__(x, other))
        /\ last' = Ran("__mul__", <<x, other>>, __mul__(x, other))
    /\ UNCHANGED registry
        /\ UNCHANGED registry

RMul ==
    \E other \in PlainInts :
        /\ x' = x
        /\ last' = Ran("__rmul__", <<other, x>>, __rmul__(x, other))
    /\ UNCHANGED registry
        /\ UNCHANGED registry

FloorDivide ==
    \E other \in PlainInts \cup FixedValues :
        /\ x' = Assigned(x, __floordiv__(x, other))
        /\ last' = Ran("__floordiv__", <<x, other>>, __floordiv__(x, other))
    /\ UNCHANGED registry
        /\ UNCHANGED registry

RFloorDivide ==
    \E other \in PlainInts :
        /\ x' = x
        /\ last' = Ran("__rfloordiv__", <<other, x>>, __rfloordiv__(x, other))
    /\ UNCHANGED registry
        /\ UNCHANGED registry

Modulo ==
    \E other \in PlainInts \cup FixedValues :
        /\ x' = Assigned(x, __mod__(x, other))
        /\ last' = Ran("__mod__", <<x, other>>, __mod__(x, other))
    /\ UNCHANGED registry
        /\ UNCHANGED registry

RModulo ==
    \E other \in PlainInts :
        /\ x' = x
        /\ last' = Ran("__rmod__", <<other, x>>, __rmod__(x, other))
    /\ UNCHANGED registry
        /\ UNCHANGED registry

\* x = -x
Neg ==
    /\ x' = __neg__(x)
    /\ last' = Ran("__neg__", <<x>>, __neg__(x))
    /\ UNCHANGED registry

\* x = abs(x)
Absolute ==
    /\ x' = __abs__(x)
    /\ last' = Ran("__abs__", <<x>>, __abs__(x))
    /\ UNCHANGED registry

\* x == other, or other == x with a plain int on the left
Eq ==
    /\ x' = x
    /\ \E other \in PlainInts \cup FixedValues, left \in BOOLEAN :
           LET a == IF left \/ IsFixed(other) THEN x ELSE other
               b == IF left \/ IsFixed(other) THEN other ELSE x
           IN last' = Ran("==", <<a, b>>, PyBool(RichCompare("==", a, b)))
    /\ UNCHANGED registry

Lt ==
    /\ x' = x
    /\ \E other \in PlainInts \cup FixedValues, left \in BOOLEAN :
           LET a == IF left \/ IsFixed(other) THEN x ELSE other
               b == IF left \/ IsFixed(other) THEN other ELSE x
           IN last' = Ran("<", <<a, b>>, PyBool(RichCompare("<", a, b)))
    /\ UNCHANGED registry

Gt ==
    /\ x' = x
    /\ \E other \in PlainInts \cup FixedValues, left \in BOOLEAN :
           LET a == IF left \/ IsFixed(other) THEN x ELSE other
               b == IF left \/ IsFixed(other) THEN other ELSE x
           IN last' = Ran(">", <<a, b>>, PyBool(RichCompare(">", a, b)))
    /\ UNCHANGED registry

Le ==
    /\ x' = x
    /\ \E other \in PlainInts \cup FixedValues, left \in BOOLEAN :
           LET a == IF left \/ IsFixed(other) THEN x ELSE other
               b == IF left \/ IsFixed(other) THEN other ELSE x
           IN last' = Ran("<=", <<a, b>>, PyBool(RichCompare("<=", a, b)))
    /\ UNCHANGED registry

Ge ==
    /\ x' = x
    /\ \E other \in PlainInts \cup FixedValues, left \in BOOLEAN :
           LET a == IF left \/ IsFixed(other) THEN x ELSE other
               b == IF left \/ IsFixed(other) THEN other ELSE x
           IN last' = Ran(">=", <<a, b>>, PyBool(RichCompare(">=", a, b)))
    /\ UNCHANGED registry

(***************************************************************************)
(* FixedInt(size, signed), a step at a time.  get_class and add_class are  *)
(* each one dictionary operation; another thread may run between any two   *)
(* steps.                                                                  *)
(***************************************************************************)

\* The call and its check of size: an invalid size raises ValueError.
Enter(t) ==
    /\ frame[t].pc = "idle"
    /\ \E size \in SizeArgs, signed \in BOOLEAN :
        frame' = [frame EXCEPT ![t] =
                    IF IsPositiveInt(size)
                    THEN [pc |-> "get_class", size |-> size, signed |-> signed,
                          cls |-> None, outcome |-> "running"]
                    ELSE [pc |-> "idle", size |-> size, signed |-> signed,
                          cls |-> None, outcome |-> "ValueError"]]
    /\ UNCHANGED <<_classes, heap, returned, values>>

\* cls = FixedIntType.get_class(size, signed)
GetClass(t) ==
    /\ frame[t].pc = "get_class"
    /\ frame' = [frame EXCEPT ![t].pc = "test",
                              ![t].cls = get_class(_classes, frame[t].size.real, frame[t].signed)]
    /\ UNCHANGED <<_classes, heap, returned, values>>

\* if cls is not None: return cls
ReturnInterned(t) ==
    /\ frame[t].pc = "test"
    /\ frame[t].cls # None
    /\ returned' = returned \cup {<<<<frame[t].size.real, frame[t].signed>>, frame[t].cls>>}
    /\ frame' = [frame EXCEPT ![t].pc = "idle", ![t].outcome = "interned"]
    /\ UNCHANGED <<_classes, heap, values>>

\* class FixedIntInstance(FixedIntType): ... a new class object
DefineClass(t) ==
    /\ frame[t].pc = "test"
    /\ frame[t].cls = None
    /\ Len(heap) < MaxClasses
    /\ heap' = Append(heap, FixedIntInstance(frame[t].size.real, frame[t].signed))
    /\ frame' = [frame EXCEPT ![t].pc = "add_class", ![t].cls = Len(heap) + 1]
    /\ UNCHANGED <<_classes, returned, values>>

\* FixedIntType.add_class(FixedIntInstance)
AddClass(t) ==
    /\ frame[t].pc = "add_class"
    /\ _classes' = add_class(_classes, heap, frame[t].cls)
    /\ frame' = [frame EXCEPT ![t].pc = "return"]
    /\ UNCHANGED <<heap, returned, values>>

\* return FixedIntInstance
ReturnNew(t) ==
    /\ frame[t].pc = "return"
    /\ returned' = returned \cup {<<<<frame[t].size.real, frame[t].signed>>, frame[t].cls>>}
    /\ frame' = [frame EXCEPT ![t].pc = "idle", ![t].outcome = "created"]
    /\ UNCHANGED <<_classes, heap, values>>

FixedInt(t) ==
    \/ Enter(t)
    \/ GetClass(t)
    \/ ReturnInterned(t)
    \/ DefineClass(t)
    \/ AddClass(t)
    \/ ReturnNew(t)

Next ==
    \/ New
    \/ Add \/ RAdd \/ Sub \/ RSub \/ Mul \/ RMul
    \/ FloorDivide \/ RFloorDivide \/ Modulo \/ RModulo
    \/ Neg \/ Absolute
    \/ Eq \/ Lt \/ Gt \/ Le \/ Ge

\* The operations on values.
Spec == Init /\ [][Next]_vars

\* Calls of FixedInt one after the other, from one thread.
NextRegistry == FixedInt("t1")

SpecRegistry == Init /\ [][NextRegistry]_vars

\* Calls of FixedInt from two threads, interleaved step by step.
NextThreads == \E t \in Threads : FixedInt(t)

SpecThreads == Init /\ [][NextThreads]_vars

(***************************************************************************)
(* What the properties are stated against: the integers themselves, not    *)
(* the operators of the code.                                              *)
(***************************************************************************)

MaxOf(cls) == IF cls.SIGNED THEN 2 ^ (cls.SIZE - 1) - 1 ELSE 2 ^ cls.SIZE - 1

MinOf(cls) == IF cls.SIGNED THEN -(2 ^ (cls.SIZE - 1)) ELSE 0

\* The integer of cls's range congruent to v modulo 2^SIZE.
Truncate(cls, v) == CHOOSE d \in MinOf(cls)..MaxOf(cls) : (d - v) % (2 ^ cls.SIZE) = 0

InRange(v) == v.real \in 0..(2 ^ v.cls.SIZE - 1)

\* Bit i of a non-negative integer.
Bit(n, i) == (n \div (2 ^ i)) % 2

Magnitude(a) == IF a < 0 THEN -a ELSE a

\* The quotient rounded toward negative infinity and its remainder, b # 0.
FloorQuotient(a, b) ==
    CHOOSE q \in (-Magnitude(a) - 1)..(Magnitude(a) + 1) :
        IF b > 0 THEN b * q <= a /\ a < b * (q + 1)
        ELSE b * q >= a /\ a > b * (q + 1)

FloorRemainder(a, b) == a - b * FloorQuotient(a, b)

\* The value an operand stands for: as_decimal() of a FixedIntInstance, the
\* integer of a plain int.
Decoded(v) == IF IsFixed(v) THEN as_decimal(v) ELSE v.real

ArithmeticOps == {"__add__", "__sub__", "__mul__", "__floordiv__", "__mod__"}

ReflectedOps == {"__radd__", "__rsub__", "__rmul__", "__rfloordiv__", "__rmod__"}

CompareOps == {"==", "<", ">", "<=", ">="}

\* The operation of a method on two integers, left operand first.
Exact(op, a, b) ==
    CASE op \in {"__add__", "__radd__"} -> a + b
      [] op \in {"__sub__", "__rsub__"} -> a - b
      [] op \in {"__mul__", "__rmul__"} -> a * b
      [] op \in {"__floordiv__", "__rfloordiv__"} -> FloorQuotient(a, b)
      [] op \in {"__mod__", "__rmod__"} -> FloorRemainder(a, b)

Holds(op, a, b) ==
    CASE op = "==" -> a = b
      [] op = "<" -> a < b
      [] op = ">" -> a > b
      [] op = "<=" -> a <= b
      [] op = ">=" -> a >= b

\* The integer the result of the last operation was constructed from.
BuiltFrom(l) ==
    CASE l.op = "new" -> l.args[1].real
      [] l.op \in ArithmeticOps -> Exact(l.op, l.args[1].real, l.args[2].real)
      [] l.op = "__neg__" -> (-l.args[1].real - 1) + 1
      [] l.op = "__abs__" -> Magnitude(l.args[1].real)

\* The classes of the tests (test_fixedint.py).
Int8 == FixedIntInstance(8, TRUE)

UInt8 == FixedIntInstance(8, FALSE)

(***************************************************************************)
(* C1.  as_decimal() of a value constructed from the integer v is the      *)
(* unique integer d with MIN_VALUE <= d <= MAX_VALUE congruent to v modulo *)
(* 2^width: raw if unsigned or if bit width-1 of raw is 0, raw - 2^width   *)
(* otherwise; MAX_VALUE and MIN_VALUE are 2^(width-1)-1 and -2^(width-1)   *)
(* if signed, 2^width-1 and 0 if unsigned; d = v when v is in that range.  *)
(***************************************************************************)
C1_Examples ==
    /\ as_decimal(Call(Int8, PyInt(200))) = -56
    /\ as_decimal(Call(Int8, PyInt(-300))) = -44
    /\ as_decimal(Call(Int8, PyInt(-88))) = -88
    /\ as_decimal(Call(UInt8, PyInt(188))) = 188

C1_AsDecimalRoundTrip ==
    /\ C1_Examples
    /\ (last.op = "new" /\ IsInt(last.args[1])) =>
        LET v == last.args[1].real
            r == last.result
            cls == r.cls
            d == as_decimal(r)
        IN /\ cls.MAX_VALUE = MaxOf(cls)
           /\ cls.MIN_VALUE = MinOf(cls)
           /\ cls.MIN_VALUE <= d /\ d <= cls.MAX_VALUE
           /\ (d - v) % (2 ^ cls.SIZE) = 0
           /\ \A e \in cls.MIN_VALUE..cls.MAX_VALUE : (e - v) % (2 ^ cls.SIZE) = 0 => e = d
           /\ d = IF ~cls.SIGNED \/ Bit(r.real, cls.SIZE - 1) = 0
                  THEN r.real
                  ELSE r.real - 2 ^ cls.SIZE
           /\ (cls.MIN_VALUE <= v /\ v <= cls.MAX_VALUE) => d = v

\* A signed value constructed from an integer above MAX_VALUE decodes negative.
C1_Witness ==
    /\ last.op = "new"
    /\ IsInt(last.args[1])
    /\ last.result.cls.SIGNED
    /\ last.args[1].real > last.result.cls.MAX_VALUE
    /\ as_decimal(last.result) < 0

(***************************************************************************)
(* C2.  Every value that constructions (from integers or from other        *)
(* values) and add, subtract, multiply, floor-divide, modulo, negate and   *)
(* absolute-value produce has a raw bit pattern in [0, 2^width - 1] for    *)
(* the width of its own type, equal to the low width bits of the integer   *)
(* it was built from; construction never fails.                            *)
(***************************************************************************)
C2_RawInRange ==
    /\ IsFixed(x) /\ InRange(x)
    /\ last.op = "new" => IsFixed(last.result)
    /\ (last.op \in ArithmeticOps \cup {"new", "__neg__", "__abs__"} /\ ~IsRaised(last.result)) =>
        /\ IsFixed(last.result)
        /\ InRange(last.result)
        /\ last.result.real = BuiltFrom(last) % (2 ^ last.result.cls.SIZE)

\* A product that does not fit the width of the left operand.
C2_Witness ==
    /\ last.op = "__mul__"
    /\ IsFixed(last.result)
    /\ BuiltFrom(last) > 2 ^ last.result.cls.SIZE - 1
    /\ last.result.real # BuiltFrom(last)

(***************************************************************************)
(* C3.  For add, subtract and multiply between two fixed-width values the  *)
(* result has the type of the left operand and its as_decimal() is the     *)
(* truncation into that type of the operation applied to the operands'     *)
(* as_decimal() values.                                                    *)
(***************************************************************************)
C3_FixedFixedOnDecoded ==
    (/\ last.op \in {"__add__", "__sub__", "__mul__"}
     /\ IsFixed(last.args[1])
     /\ IsFixed(last.args[2])) =>
        /\ IsFixed(last.result)
        /\ last.result.cls = last.args[1].cls
        /\ as_decimal(last.result) =
             Truncate(last.args[1].cls,
                      Exact(last.op, as_decimal(last.args[1]), as_decimal(last.args[2])))

(***************************************************************************)
(* C4.  n op y with a plain integer n on the left returns a plain integer  *)
(* equal to n op y.as_decimal(), untruncated, for add, subtract, multiply, *)
(* floor-divide and modulo; y op n returns a value of y's type.            *)
(***************************************************************************)
C4_IntLeftUnbounded ==
    /\ (last.op \in ReflectedOps /\ ~IsRaised(last.result)) =>
        /\ IsInt(last.result)
        /\ last.result.real = Exact(last.op, last.args[1].real, as_decimal(last.args[2]))
    /\ (last.op \in ArithmeticOps /\ IsInt(last.args[2]) /\ ~IsRaised(last.result)) =>
        /\ IsFixed(last.result)
        /\ last.result.cls = last.args[1].cls

(***************************************************************************)
(* C5.  For fixed-width x and y with y.as_decimal() # 0, x // y and x % y  *)
(* are the floor quotient and the floor remainder of x.as_decimal() and    *)
(* y.as_decimal(), truncated into the type of x.                           *)
(***************************************************************************)
C5_FloorOnDecoded ==
    (/\ last.op \in {"__floordiv__", "__mod__"}
     /\ IsFixed(last.args[1])
     /\ IsFixed(last.args[2])
     /\ as_decimal(last.args[2]) # 0) =>
        /\ IsFixed(last.result)
        /\ last.result.cls = last.args[1].cls
        /\ as_decimal(last.result) =
             Truncate(last.args[1].cls,
                      Exact(last.op, as_decimal(last.args[1]), as_decimal(last.args[2])))

(***************************************************************************)
(* C7.  Equality and the four orderings compare the as_decimal() of a      *)
(* fixed-width operand with the other operand's as_decimal(), or with the  *)
(* plain integer itself, untruncated, in either operand order; equal raw   *)
(* bit patterns with different decoded values are not equal.               *)
(***************************************************************************)
C7_Examples ==
    /\ ~RichCompare("==", Call(UInt8, PyInt(255)), Call(Int8, PyInt(-1)))
    /\ RichCompare("==", Call(Int8, PyInt(200)), PyInt(-56))
    /\ ~RichCompare("==", Call(Int8, PyInt(200)), PyInt(200))
    /\ ~RichCompare("==", PyInt(200), Call(Int8, PyInt(200)))
    /\ RichCompare("<", PyInt(-52), Call(Int8, PyInt(17)))
    /\ RichCompare(">=", Call(Int8, PyInt(17)), Call(Int8, PyInt(-52)))

C7_CompareDecoded ==
    /\ C7_Examples
    /\ last.op \in CompareOps =>
        last.result = PyBool(Holds(last.op, Decoded(last.args[1]), Decoded(last.args[2])))

\* Two values of different types with the same bits, found unequal.
C7_Witness ==
    /\ last.op = "=="
    /\ IsFixed(last.args[1])
    /\ IsFixed(last.args[2])
    /\ last.args[1].real = last.args[2].real
    /\ as_decimal(last.args[1]) # as_decimal(last.args[2])
    /\ last.result = PyBool(FALSE)

(***************************************************************************)
(* C8.  -x is a value of x's type whose raw is (~raw + 1) mod 2^width, so  *)
(* its as_decimal() is the truncation of -x.as_decimal(); negating twice   *)
(* returns the original value and the minimum signed value negates to      *)
(* itself.                                                                 *)
(***************************************************************************)
C8_Examples ==
    /\ as_decimal(__neg__(Call(Int8, PyInt(-128)))) = -128
    /\ as_decimal(__neg__(Call(Int8, PyInt(5)))) = -5

C8_Negate ==
    /\ C8_Examples
    /\ last.op = "__neg__" =>
        LET a == last.args[1]
            r == last.result
        IN /\ IsFixed(r)
           /\ r.cls = a.cls
           /\ r.real = ((-a.real - 1) + 1) % (2 ^ a.cls.SIZE)
           /\ as_decimal(r) = Truncate(a.cls, -as_decimal(a))
           /\ __neg__(r) = a
           /\ (a.cls.SIGNED /\ as_decimal(a) = MinOf(a.cls)) => as_decimal(r) = MinOf(a.cls)

\* The minimum of a signed type of two bits or more, negated to itself.
C8_Witness ==
    /\ last.op = "__neg__"
    /\ last.args[1].cls.SIGNED
    /\ last.args[1].cls.SIZE >= 2
    /\ as_decimal(last.args[1]) = MinOf(last.args[1].cls)
    /\ as_decimal(last.result) = MinOf(last.args[1].cls)

(***************************************************************************)
(* C9.  abs(x) is a value of x's type whose as_decimal() is the absolute   *)
(* value of x.as_decimal(), except that the minimum signed value gives     *)
(* itself.                                                                 *)
(***************************************************************************)
C9_AbsoluteValue ==
    last.op = "__abs__" =>
        LET a == last.args[1]
            r == last.result
            d == as_decimal(a)
        IN /\ IsFixed(r)
           /\ r.cls = a.cls
           /\ as_decimal(r) = IF a.cls.SIGNED /\ d = MinOf(a.cls)
                              THEN MinOf(a.cls)
                              ELSE Magnitude(d)

(***************************************************************************)
(* C6.  In every state reached by calls of FixedInt made one after the     *)
(* other, valid or not, the registry holds at most one type per            *)
(* (width, signed) key and only for positive integer widths, an entry is   *)
(* never removed or replaced, every call for a key returns the type every  *)
(* earlier call for it returned, MAX_VALUE and MIN_VALUE are fixed by the  *)
(* key, and a call with a width that is zero, negative or not an integer   *)
(* raises and leaves the registry unchanged.                               *)
(***************************************************************************)
KeyOf(f) == <<f.size.real, f.signed>>

C6_Registry ==
    /\ \A k \in DOMAIN _classes :
        /\ k[1] \in Nat /\ k[1] > 0
        /\ _classes[k] \in 1..Len(heap)
        /\ heap[_classes[k]].SIZE = k[1]
        /\ heap[_classes[k]].SIGNED = k[2]
        /\ heap[_classes[k]].MAX_VALUE = MaxOf(heap[_classes[k]])
        /\ heap[_classes[k]].MIN_VALUE = MinOf(heap[_classes[k]])
    /\ \A i, j \in 1..Len(heap) :
        (heap[i].SIZE = heap[j].SIZE /\ heap[i].SIGNED = heap[j].SIGNED) => i = j
    /\ \A p \in returned : p[1] \in DOMAIN _classes /\ _classes[p[1]] = p[2]
    /\ \A t \in Threads :
        /\ frame[t].outcome = "ValueError" => ~IsPositiveInt(frame[t].size)
        /\ frame[t].outcome \in {"running", "interned", "created"} =>
             /\ frame[t].size.cls.name = "int"
             /\ frame[t].size.real > 0

C6_Step ==
    /\ \A k \in DOMAIN _classes : k \in DOMAIN _classes' /\ _classes'[k] = _classes[k]
    /\ returned \subseteq returned'
    /\ \A t \in Threads :
        (frame'[t] # frame[t] /\ frame'[t].outcome = "ValueError") =>
            UNCHANGED <<_classes, heap, returned>>

C6_OneTypePerKey == []C6_Registry /\ [][C6_Step]_vars

\* Every valid key is interned and a further call for one of them has
\* returned the interned class.
C6_Witness ==
    /\ Cardinality(DOMAIN _classes) = 2 * MaxRegSize
    /\ frame["t1"].outcome = "interned"
    /\ frame["t1"].cls = _classes[KeyOf(frame["t1"])]
    /\ <<KeyOf(frame["t1"]), frame["t1"].cls>> \in returned

(***************************************************************************)
(* C10.  When two threads call FixedInt concurrently for the same key,     *)
(* not yet registered, under every interleaving of their get_class and     *)
(* add_class steps both calls return the same type and the registry never  *)
(* replaces the type stored for the key; calls for different keys never    *)
(* interfere.                                                              *)
(***************************************************************************)
C10_SameHandle == \A p, q \in returned : p[1] = q[1] => p[2] = q[2]

C10_Step ==
    /\ \A k \in DOMAIN _classes : k \in DOMAIN _classes' /\ _classes'[k] = _classes[k]
    /\ \A k \in DOMAIN _classes' :
        k \notin DOMAIN _classes =>
            \E t \in Threads : frame[t].pc = "add_class" /\ KeyOf(frame[t]) = k

C10_ConcurrentSameType == []C10_SameHandle /\ [][C10_Step]_vars

====
